---------------------------- MODULE Spec2Model ----------------------------
(***************************************************************************)
(* State-machine model of the pipeline engine of src/Tomasulo.py: the      *)
(* TomasuloSimulator fields touched by load_program, step and              *)
(* simulate_cycle, with Instruction and ReservationStation objects as      *)
(* records.  An Instruction object is shared between the program image,    *)
(* the instruction queue and the stations, so the queue and the stations   *)
(* hold indices into program.                                              *)
(***************************************************************************)
EXTENDS Integers, Sequences, FiniteSets, TLC

VARIABLES cycle, program, current_pc, pending_control_flow, registers,
          register_status, memory, instructions, completed_instructions,
          branch_count, mispredictions, res_stations

vars == <<cycle, program, current_pc, pending_control_flow, registers,
          register_status, memory, instructions, completed_instructions,
          branch_count, mispredictions, res_stations>>

(***************************************************************************)
(* Python values.  None is the empty tuple and a present value v is <<v>>, *)
(* for every slot the code initialises to None (timestamps, Vj, Vk, Qj,    *)
(* Qk, A, the held instruction, the register-status entries).              *)
(***************************************************************************)
None == <<>>

Some(v) == <<v>>

Val(o) == o[1]

\* self.max_cycles
max_cycles == 1000

\* 0xFFFF, the 16-bit mask of the arithmetic results and memory initialisers
MASK16 == 65535

\* x & 0xFFFF on a Python integer of either sign
And16(x) == x % (MASK16 + 1)

\* ~x on a Python integer
BitNot(x) == (-x) - 1

\* a | b on Python integers of either sign (two's complement, floor division)
RECURSIVE BitOr(_, _)
BitOr(a, b) ==
    IF a = 0 THEN b
    ELSE IF b = 0 THEN a
    ELSE IF a = -1 \/ b = -1 THEN -1
    ELSE 2 * BitOr(a \div 2, b \div 2)
         + (IF a % 2 = 1 \/ b % 2 = 1 THEN 1 ELSE 0)

\* (a * b) & 0xFFFF, computed on 8-bit halves of b so that no intermediate
\* product leaves the 32-bit range of the checker; equal to the code's value
\* for all integers a, b.
MulAnd16(a, b) ==
    LET al == And16(a)
        bl == And16(b) % 256
        bh == And16(b) \div 256
    IN  (al * bl + ((al * bh) % 256) * 256) % (MASK16 + 1)

\* instruction_types: the order in which hw_config_entries, and so
\* res_stations, is filled and iterated
instruction_types == <<"LOAD", "STORE", "BEQ", "CALL_RET", "ADD_SUB", "NOR", "MUL">>

\* self.op_to_rs
op_to_rs(opcode) ==
    CASE opcode = "LOAD"  -> "LOAD"
      [] opcode = "STORE" -> "STORE"
      [] opcode = "BEQ"   -> "BEQ"
      [] opcode = "CALL"  -> "CALL_RET"
      [] opcode = "RET"   -> "CALL_RET"
      [] opcode = "ADD"   -> "ADD_SUB"
      [] opcode = "SUB"   -> "ADD_SUB"
      [] opcode = "NOR"   -> "NOR"
      [] opcode = "MUL"   -> "MUL"

\* int(operand[1:]) on a register operand "R0".."R7"
RegIndex(operand) ==
    CASE operand = "R0" -> 0
      [] operand = "R1" -> 1
      [] operand = "R2" -> 2
      [] operand = "R3" -> 3
      [] operand = "R4" -> 4
      [] operand = "R5" -> 5
      [] operand = "R6" -> 6
      [] operand = "R7" -> 7

\* Instruction.__init__
Instruction(opcode, operands, pc) ==
    [opcode |-> opcode, operands |-> operands, pc |-> pc,
     issue_cycle |-> None, start_exec_cycle |-> None,
     end_exec_cycle |-> None, write_cycle |-> None, completed |-> FALSE]

\* ReservationStation.__init__
ReservationStation(name, op_type, exec_cycles) ==
    [name |-> name, op_type |-> op_type, exec_cycles |-> exec_cycles,
     busy |-> FALSE, instruction |-> None,
     vj |-> None, vk |-> None, qj |-> None, qk |-> None, a |-> None,
     cycles_left |-> 0, executing |-> FALSE, wrote_result |-> FALSE,
     just_wrote |-> FALSE]

\* mutant of clear: the executing flag is not reset
clearKeepsExecuting(rs) ==
    [rs EXCEPT !.busy = FALSE, !.instruction = None,
               !.vj = None, !.vk = None, !.qj = None, !.qk = None, !.a = None,
               !.cycles_left = 0, !.wrote_result = FALSE,
               !.just_wrote = FALSE]

\* ReservationStation.clear
clear(rs) ==
    [rs EXCEPT !.busy = FALSE, !.instruction = None,
               !.vj = None, !.vk = None, !.qj = None, !.qk = None, !.a = None,
               !.cycles_left = 0, !.executing = FALSE, !.wrote_result = FALSE,
               !.just_wrote = FALSE]

\* f"{op_type}{i}"
StationName(op_type, i) == op_type \o ToString(i)


(***************************************************************************)
(* initialize_reservation_stations.  hw_config maps each op-type to the    *)
(* pair <<RS count, exec cycles>> read from the two entry widgets.         *)
(* res_stations is the dict of lists flattened in iteration order: every   *)
(* loop of the code over it is "for rs_list in values: for rs in rs_list". *)
(***************************************************************************)
StationList(op_type, num_rs, exec_cycles) ==
    LET actual_cycles == IF op_type \in {"LOAD", "STORE"}
                         THEN exec_cycles - 1 ELSE exec_cycles
    IN  [i \in 1..num_rs |->
            ReservationStation(StationName(op_type, i), op_type, actual_cycles)]

RECURSIVE BuildStations(_, _)
BuildStations(hw_config, t) ==
    IF t > Len(instruction_types) THEN [ok |-> TRUE, stations |-> <<>>]
    ELSE LET op_type == instruction_types[t]
             num_rs == hw_config[op_type][1]
             exec_cycles == hw_config[op_type][2]
         IN  IF num_rs < 1 \/ exec_cycles < 1
             THEN [ok |-> FALSE, stations |-> <<>>]
             ELSE LET rest == BuildStations(hw_config, t + 1)
                  IN  [ok |-> rest.ok,
                       stations |-> StationList(op_type, num_rs, exec_cycles)
                                    \o rest.stations]

initialize_reservation_stations(hw_config) == BuildStations(hw_config, 1)

(***************************************************************************)
(* Memory: defaultdict(int).  A read of an absent key yields 0 and inserts *)
(* the key.                                                                *)
(***************************************************************************)
MemGet(mem, addr) == IF addr \in DOMAIN mem THEN mem[addr] ELSE 0

MemTouch(mem, addr) == IF addr \in DOMAIN mem THEN mem ELSE mem @@ (addr :> 0)

\* mutant of MemSet: the word is stored masked to its low byte
MemSetLowByte(mem, addr, value) ==
    [x \in DOMAIN mem \cup {addr} |-> IF x = addr THEN value % 256 ELSE mem[x]]

MemSet(mem, addr, value) ==
    [x \in DOMAIN mem \cup {addr} |-> IF x = addr THEN value ELSE mem[x]]

\* load_program, the value stored for a memory initialiser "addr:value"
MemoryInitValue(value) ==
    IF value < 0
    THEN LET v == And16(value)
         IN  IF v >= 32768 THEN v - 65536 ELSE v
    ELSE And16(value)

RECURSIVE LoadMemory(_, _)
LoadMemory(mem, memory_input) ==
    IF memory_input = <<>> THEN mem
    ELSE LoadMemory(MemSet(mem, Head(memory_input)[1],
                           MemoryInitValue(Head(memory_input)[2])),
                    Tail(memory_input))

\* load_program, the parse loop: instruction k of the input gets pc start_pc + k - 1
ParseProgram(program_input, start_pc) ==
    [k \in 1..Len(program_input) |->
        Instruction(program_input[k][1], program_input[k][2], start_pc + k - 1)]

Indices(n) == [i \in 1..n |-> i]

\* parse_instruction returns an Instruction for the line: the opcode is
\* known, the operands it indexes are there (further ones are ignored) and
\* a CALL label is a 7-bit signed constant.  Offsets and labels are given
\* as integers.
ParsesOk(line) ==
    LET opcode == line[1]
        operands == line[2]
    IN  CASE opcode \in {"LOAD", "STORE", "BEQ"} -> Len(operands) >= 3
          [] opcode = "CALL" ->
               Len(operands) >= 1 /\ operands[1] >= -64 /\ operands[1] <= 63
          [] opcode = "RET" -> TRUE
          [] opcode \in {"ADD", "SUB", "NOR", "MUL"} -> Len(operands) >= 3
          [] OTHER -> FALSE

\* map(int, line.split(':')) yields the two integers addr, value; an
\* initialiser with an empty value, "6:", is the tuple <<6>>
InitialiserOk(entry) == Len(entry) = 2

\* the number of leading initialisers, and of leading program lines, that
\* load_program stores before the first one that raises
LeadingInitialisers(memory_input) ==
    CHOOSE n \in 0..Len(memory_input) :
        /\ \A i \in 1..n : InitialiserOk(memory_input[i])
        /\ n < Len(memory_input) => ~InitialiserOk(memory_input[n + 1])

LeadingLines(program_input) ==
    CHOOSE n \in 0..Len(program_input) :
        /\ \A i \in 1..n : ParsesOk(program_input[i])
        /\ n < Len(program_input) => ~ParsesOk(program_input[n + 1])

(***************************************************************************)
(* simulate_cycle.  The operators below take and return the record s of    *)
(* the simulator's fields; s.returned models the early "return" of the     *)
(* method.                                                                 *)
(***************************************************************************)

\* mutant of Refetch: the instruction at the target is not appended
RefetchAfterTarget(prog, target) ==
    LET hits == {i \in 1..Len(prog) : prog[i].pc = target}
    IN  IF hits = {} THEN <<>>
        ELSE LET first == CHOOSE i \in hits : \A j \in hits : i <= j
             IN  [k \in 1..(Len(prog) - first) |-> first + k]

\* The refetch loop of CALL, RET and taken BEQ: the queue becomes every
\* program instruction from the first one whose pc is target on.
Refetch(prog, target) ==
    LET hits == {i \in 1..Len(prog) : prog[i].pc = target}
    IN  IF hits = {} THEN <<>>
        ELSE LET first == CHOOSE i \in hits : \A j \in hits : i <= j
             IN  [k \in 1..(Len(prog) - first + 1) |-> first + k - 1]

\* mutant of HaltSimulation: the stations are not cleared
HaltKeepsStations(s) ==
    [s EXCEPT !.instructions = <<>>,
              !.pending_control_flow = FALSE,
              !.returned = TRUE]

\* The cycle-cap branch and the invalid-branch-target branch: queue emptied,
\* pending_control_flow reset, every station cleared, return.
HaltSimulation(s) ==
    [s EXCEPT !.instructions = <<>>,
              !.pending_control_flow = FALSE,
              !.res_stations = [k \in DOMAIN s.res_stations |-> clear(s.res_stations[k])],
              !.returned = TRUE]

\* mutant of ReleaseSweep: the stations that wrote are never released
ReleaseSweepSkipped(s) == s

\* First sweep: clear the stations that wrote their result in the previous cycle.
ReleaseSweep(s) ==
    [s EXCEPT !.res_stations =
        [k \in DOMAIN s.res_stations |->
            IF s.res_stations[k].wrote_result THEN clear(s.res_stations[k])
            ELSE s.res_stations[k]]]

\* The stations collected in "completed", in iteration order.
IsCompleted(rs) == rs.busy /\ rs.executing /\ rs.cycles_left <= 0 /\ ~rs.wrote_result

CompletedStations(s) ==
    SelectSeq(Indices(Len(s.res_stations)), LAMBDA k : IsCompleted(s.res_stations[k]))

\* mutant of ArithResult: the sum and the difference are not masked
ArithResultUnmasked(opcode, rB, rC) ==
    CASE opcode = "ADD" -> rB + rC
      [] opcode = "SUB" -> rB - rC
      [] opcode = "NOR" -> And16(BitNot(BitOr(rB, rC)))
      [] opcode = "MUL" -> MulAnd16(rB, rC)

\* The arithmetic results of ADD, SUB, NOR and MUL.
ArithResult(opcode, rB, rC) ==
    CASE opcode = "ADD" -> And16(rB + rC)
      [] opcode = "SUB" -> And16(rB - rC)
      [] opcode = "NOR" -> And16(BitNot(BitOr(rB, rC)))
      [] opcode = "MUL" -> MulAnd16(rB, rC)

\* mutant of Broadcast: the result is forwarded to the stations but not
\* written to the register file
BroadcastToStationsOnly(s, name, result, dest_reg) ==
    LET Forward(o) ==
            LET o1 == IF o.qj = Some(name)
                      THEN [o EXCEPT !.vj = Some(result), !.qj = None, !.just_wrote = TRUE]
                      ELSE o
            IN  IF o1.qk = Some(name)
                THEN [o1 EXCEPT !.vk = Some(result), !.qk = None, !.just_wrote = TRUE]
                ELSE o1
    IN  [s EXCEPT !.res_stations = [k \in DOMAIN s.res_stations |-> Forward(s.res_stations[k])]]

\* mutant of Broadcast: the register is written whoever owns its status
BroadcastIgnoringOwner(s, name, result, dest_reg) ==
    LET Forward(o) ==
            LET o1 == IF o.qj = Some(name)
                      THEN [o EXCEPT !.vj = Some(result), !.qj = None, !.just_wrote = TRUE]
                      ELSE o
            IN  IF o1.qk = Some(name)
                THEN [o1 EXCEPT !.vk = Some(result), !.qk = None, !.just_wrote = TRUE]
                ELSE o1
    IN  [s EXCEPT !.registers = [@ EXCEPT ![dest_reg] = result],
                  !.register_status = [@ EXCEPT ![dest_reg] = None],
                  !.res_stations = [k \in DOMAIN s.res_stations |-> Forward(s.res_stations[k])]]

\* mutant of Broadcast: the register file is written but the result is not
\* forwarded to the waiting stations
BroadcastToRegisterOnly(s, name, result, dest_reg) ==
    LET owns == s.register_status[dest_reg] = Some(name)
    IN  [s EXCEPT !.registers = IF owns THEN [@ EXCEPT ![dest_reg] = result] ELSE @,
                  !.register_status = IF owns THEN [@ EXCEPT ![dest_reg] = None] ELSE @]

\* "Broadcast on CDB": the register write and the forwarding to every station.
Broadcast(s, name, result, dest_reg) ==
    LET owns == s.register_status[dest_reg] = Some(name)
        Forward(o) ==
            LET o1 == IF o.qj = Some(name)
                      THEN [o EXCEPT !.vj = Some(result), !.qj = None, !.just_wrote = TRUE]
                      ELSE o
            IN  IF o1.qk = Some(name)
                THEN [o1 EXCEPT !.vk = Some(result), !.qk = None, !.just_wrote = TRUE]
                ELSE o1
    IN  [s EXCEPT !.registers = IF owns THEN [@ EXCEPT ![dest_reg] = result] ELSE @,
                  !.register_status = IF owns THEN [@ EXCEPT ![dest_reg] = None] ELSE @,
                  !.res_stations = [k \in DOMAIN s.res_stations |-> Forward(s.res_stations[k])]]

\* mutant of MarkCompletion: after a CALL, a RET or a BEQ with equal operands
\* the other stations are squashed
MarkCompletionSquashing(s, k, done) ==
    LET rs == s.res_stations[k]
        opcode == s.program[Val(rs.instruction)].opcode
        redirects == opcode \in {"CALL", "RET"} \/ (opcode = "BEQ" /\ rs.vj = rs.vk)
    IN  [s EXCEPT !.program[done].completed = TRUE,
                  !.completed_instructions = @ + 1,
                  !.res_stations = [o \in DOMAIN s.res_stations |->
                       IF o = k THEN [rs EXCEPT !.wrote_result = TRUE]
                       ELSE IF redirects THEN clear(s.res_stations[o])
                       ELSE s.res_stations[o]]]

\* "Mark completion for all instruction types": done is the index of the
\* object the local name instr is bound to at that point.
MarkCompletion(s, k, done) ==
    [s EXCEPT !.program[done].completed = TRUE,
              !.completed_instructions = @ + 1,
              !.res_stations[k].wrote_result = TRUE]

\* mutant of Taken: every BEQ is resolved as taken
TakenAlways(rA, rB) == TRUE

\* the BEQ test "if rA == rB:  # Taken"
Taken(rA, rB) == rA = rB

\* The body of "for rs in completed" for the station at index k.
WriteBackStation(s, k) ==
    LET rs == s.res_stations[k]
        ii == Val(rs.instruction)
        instr == s.program[ii]
        opcode == instr.opcode
        s1 == [s EXCEPT !.program[ii].write_cycle = Some(s.cycle)]
    IN  CASE opcode = "LOAD" ->
               LET addr == Val(rs.vj) + Val(rs.a)
                   result == MemGet(s1.memory, addr)
                   s2 == [s1 EXCEPT !.memory = MemTouch(@, addr)]
               IN  MarkCompletion(
                       Broadcast(s2, rs.name, result, RegIndex(instr.operands[1])), k, ii)
          [] opcode \in {"ADD", "SUB", "NOR", "MUL"} ->
               LET result == ArithResult(opcode, Val(rs.vj), Val(rs.vk))
               IN  MarkCompletion(
                       Broadcast(s1, rs.name, result, RegIndex(instr.operands[1])), k, ii)
          [] opcode = "CALL" ->
               LET result == instr.pc + 1
                   s2 == [s1 EXCEPT !.current_pc = instr.operands[1],
                                    !.instructions = Refetch(s1.program, instr.operands[1]),
                                    !.pending_control_flow = FALSE]
               IN  MarkCompletion(Broadcast(s2, rs.name, result, 1), k, ii)
          [] opcode = "RET" ->
               LET return_address == Val(rs.vj)
                   s2 == [s1 EXCEPT !.current_pc = return_address,
                                    !.instructions = Refetch(s1.program, return_address),
                                    !.pending_control_flow = FALSE]
               IN  MarkCompletion(s2, k, ii)
          [] opcode = "STORE" ->
               LET addr == Val(rs.vj) + Val(rs.a)
                   s2 == [s1 EXCEPT !.memory = MemSet(@, addr, Val(rs.vk))]
               IN  MarkCompletion(s2, k, ii)
          [] opcode = "BEQ" ->
               LET rA == Val(rs.vj)
                   rB == Val(rs.vk)
                   s2 == [s1 EXCEPT !.branch_count = @ + 1]
                   target_pc == instr.pc + 1 + (instr.operands[3] - 1)
               IN  IF target_pc < 0 THEN HaltSimulation(s2)
                   ELSE IF Taken(rA, rB)
                   THEN \* taken: the refetch loop "for instr in self.program"
                        \* rebinds instr, which is then the last program
                        \* instruction when completion is marked
                        MarkCompletion(
                            [s2 EXCEPT !.mispredictions = @ + 1,
                                       !.current_pc = target_pc,
                                       !.instructions = Refetch(s2.program, target_pc),
                                       !.pending_control_flow = FALSE],
                            k, Len(s2.program))
                   ELSE MarkCompletion(
                            [s2 EXCEPT !.current_pc = instr.pc + 1,
                                       !.pending_control_flow = FALSE],
                            k, ii)

RECURSIVE WriteBackLoop(_, _)
WriteBackLoop(s, completed) ==
    IF completed = <<>> \/ s.returned THEN s
    ELSE WriteBackLoop(WriteBackStation(s, Head(completed)), Tail(completed))

\* Write stage
WriteBackSweep(s) == WriteBackLoop(s, CompletedStations(s))

\* mutant of MayStart: execution starts without the just_wrote guard
MayStartUnguarded(rs) ==
    rs.busy /\ ~rs.executing /\ rs.qj = None /\ rs.qk = None

\* the condition under which Execute starts a station
MayStart(rs) ==
    rs.busy /\ ~rs.executing /\ rs.qj = None /\ rs.qk = None /\ ~rs.just_wrote

\* The body of the Execute loop for the station at index k.
ExecuteStation(s, k) ==
    LET rs == s.res_stations[k]
        s1 == IF MayStart(rs)
              THEN [s EXCEPT !.res_stations[k].executing = TRUE,
                             !.res_stations[k].cycles_left = rs.exec_cycles,
                             !.program[Val(rs.instruction)].start_exec_cycle = Some(s.cycle)]
              ELSE IF rs.executing /\ rs.cycles_left > 0
              THEN IF rs.cycles_left - 1 = 0
                   THEN [s EXCEPT !.res_stations[k].cycles_left = 0,
                                  !.program[Val(rs.instruction)].end_exec_cycle = Some(s.cycle)]
                   ELSE [s EXCEPT !.res_stations[k].cycles_left = @ - 1]
              ELSE s
    IN  [s1 EXCEPT !.res_stations[k].just_wrote = FALSE]

RECURSIVE ExecuteLoop(_, _)
ExecuteLoop(s, k) ==
    IF k > Len(s.res_stations) THEN s
    ELSE ExecuteLoop(ExecuteStation(s, k), k + 1)

\* Execute stage
ExecuteSweep(s) == ExecuteLoop(s, 1)

\* mutant of SetJ: the register value is copied even when a tag is recorded
SetJWithStaleValue(rs, s, idx) ==
    IF s.register_status[idx] # None
    THEN [rs EXCEPT !.qj = s.register_status[idx], !.vj = Some(s.registers[idx])]
    ELSE [rs EXCEPT !.vj = Some(s.registers[idx])]

\* "if self.register_status[idx]: rs.qj = status else: rs.vj = registers[idx]"
SetJ(rs, s, idx) ==
    IF s.register_status[idx] # None
    THEN [rs EXCEPT !.qj = s.register_status[idx]]
    ELSE [rs EXCEPT !.vj = Some(s.registers[idx])]

\* the same for qk / vk
SetK(rs, s, idx) ==
    IF s.register_status[idx] # None
    THEN [rs EXCEPT !.qk = s.register_status[idx]]
    ELSE [rs EXCEPT !.vk = Some(s.registers[idx])]

\* mutant of FreeStation: the last free station of the type is taken
FreeStationLast(s, rs_type) ==
    LET free == {k \in DOMAIN s.res_stations :
                    s.res_stations[k].op_type = rs_type /\ ~s.res_stations[k].busy}
    IN  IF free = {} THEN 0 ELSE CHOOSE k \in free : \A j \in free : k >= j

\* next((rs for rs in rs_list if not rs.busy), None): 0 stands for None
FreeStation(s, rs_type) ==
    LET free == {k \in DOMAIN s.res_stations :
                    s.res_stations[k].op_type = rs_type /\ ~s.res_stations[k].busy}
    IN  IF free = {} THEN 0 ELSE CHOOSE k \in free : \A j \in free : k <= j

\* mutant of MayIssue: Issue ignores pending_control_flow
MayIssueWhilePending(s) == s.instructions # <<>>

\* the condition under which Issue examines the head of the queue
MayIssue(s) == s.instructions # <<>> /\ ~s.pending_control_flow

\* mutant of IssueSweep: the line "self.pending_control_flow = True" of the
\* STORE case is not commented out
IssueSweepStoreBlocks(s) ==
    IF MayIssue(s)
    THEN LET ii == Head(s.instructions)
             instr == s.program[ii]
             opcode == instr.opcode
             f == FreeStation(s, op_to_rs(opcode))
         IN  IF f = 0 THEN s
             ELSE LET free_rs == [s.res_stations[f] EXCEPT !.busy = TRUE,
                                                           !.instruction = Some(ii)]
                      s1 == [s EXCEPT !.instructions = Tail(@),
                                      !.program[ii].issue_cycle = Some(s.cycle)]
                  IN  CASE opcode = "LOAD" ->
                             LET rB_idx == RegIndex(instr.operands[2])
                                 dest_idx == RegIndex(instr.operands[1])
                             IN  [s1 EXCEPT
                                    !.res_stations[f] =
                                        SetJ([free_rs EXCEPT !.a = Some(instr.operands[3])],
                                             s, rB_idx),
                                    !.register_status[dest_idx] = Some(free_rs.name)]
                        [] opcode = "STORE" ->
                             LET rA_idx == RegIndex(instr.operands[1])
                                 rB_idx == RegIndex(instr.operands[2])
                             IN  [s1 EXCEPT
                                    !.res_stations[f] =
                                        SetK(SetJ([free_rs EXCEPT !.a = Some(instr.operands[3])],
                                                  s, rB_idx),
                                             s, rA_idx),
                                    !.pending_control_flow = TRUE]
                        [] opcode = "BEQ" ->
                             LET rA_idx == RegIndex(instr.operands[1])
                                 rB_idx == RegIndex(instr.operands[2])
                             IN  [s1 EXCEPT
                                    !.res_stations[f] = SetK(SetJ(free_rs, s, rA_idx), s, rB_idx),
                                    !.pending_control_flow = TRUE]
                        [] opcode = "CALL" ->
                             [s1 EXCEPT
                                !.res_stations[f] = [free_rs EXCEPT !.a = Some(instr.operands[1])],
                                !.register_status[1] = Some(free_rs.name),
                                !.pending_control_flow = TRUE]
                        [] opcode = "RET" ->
                             [s1 EXCEPT
                                !.res_stations[f] = SetJ(free_rs, s, 1),
                                !.pending_control_flow = TRUE]
                        [] opcode \in {"ADD", "SUB", "NOR", "MUL"} ->
                             LET rB_idx == RegIndex(instr.operands[2])
                                 rC_idx == RegIndex(instr.operands[3])
                                 dest_idx == RegIndex(instr.operands[1])
                             IN  [s1 EXCEPT
                                    !.res_stations[f] = SetK(SetJ(free_rs, s, rB_idx), s, rC_idx),
                                    !.register_status[dest_idx] = Some(free_rs.name)]
    ELSE s

\* Issue stage
IssueSweep(s) ==
    IF MayIssue(s)
    THEN LET ii == Head(s.instructions)
             instr == s.program[ii]
             opcode == instr.opcode
             f == FreeStation(s, op_to_rs(opcode))
         IN  IF f = 0 THEN s
             ELSE LET free_rs == [s.res_stations[f] EXCEPT !.busy = TRUE,
                                                           !.instruction = Some(ii)]
                      s1 == [s EXCEPT !.instructions = Tail(@),
                                      !.program[ii].issue_cycle = Some(s.cycle)]
                  IN  CASE opcode = "LOAD" ->
                             LET rB_idx == RegIndex(instr.operands[2])
                                 dest_idx == RegIndex(instr.operands[1])
                             IN  [s1 EXCEPT
                                    !.res_stations[f] =
                                        SetJ([free_rs EXCEPT !.a = Some(instr.operands[3])],
                                             s, rB_idx),
                                    !.register_status[dest_idx] = Some(free_rs.name)]
                        [] opcode = "STORE" ->
                             LET rA_idx == RegIndex(instr.operands[1])
                                 rB_idx == RegIndex(instr.operands[2])
                             IN  [s1 EXCEPT
                                    !.res_stations[f] =
                                        SetK(SetJ([free_rs EXCEPT !.a = Some(instr.operands[3])],
                                                  s, rB_idx),
                                             s, rA_idx)]
                        [] opcode = "BEQ" ->
                             LET rA_idx == RegIndex(instr.operands[1])
                                 rB_idx == RegIndex(instr.operands[2])
                             IN  [s1 EXCEPT
                                    !.res_stations[f] = SetK(SetJ(free_rs, s, rA_idx), s, rB_idx),
                                    !.pending_control_flow = TRUE]
                        [] opcode = "CALL" ->
                             [s1 EXCEPT
                                !.res_stations[f] = [free_rs EXCEPT !.a = Some(instr.operands[1])],
                                !.register_status[1] = Some(free_rs.name),
                                !.pending_control_flow = TRUE]
                        [] opcode = "RET" ->
                             [s1 EXCEPT
                                !.res_stations[f] = SetJ(free_rs, s, 1),
                                !.pending_control_flow = TRUE]
                        [] opcode \in {"ADD", "SUB", "NOR", "MUL"} ->
                             LET rB_idx == RegIndex(instr.operands[2])
                                 rC_idx == RegIndex(instr.operands[3])
                                 dest_idx == RegIndex(instr.operands[1])
                             IN  [s1 EXCEPT
                                    !.res_stations[f] = SetK(SetJ(free_rs, s, rB_idx), s, rC_idx),
                                    !.register_status[dest_idx] = Some(free_rs.name)]
    ELSE s

\* mutant of simulate_cycle: the cap applies five cycles late
simulate_cycle_capped_late(s) ==
    IF s.cycle > max_cycles + 5 THEN HaltSimulation(s)
    ELSE LET w == WriteBackSweep(ReleaseSweep(s))
         IN  IF w.returned THEN w ELSE IssueSweep(ExecuteSweep(w))

\* mutant of simulate_cycle: the cap already applies in cycle max_cycles
simulate_cycle_capped_early(s) ==
    IF s.cycle >= max_cycles THEN HaltSimulation(s)
    ELSE LET w == WriteBackSweep(ReleaseSweep(s))
         IN  IF w.returned THEN w ELSE IssueSweep(ExecuteSweep(w))

simulate_cycle(s) ==
    IF s.cycle > max_cycles THEN HaltSimulation(s)
    ELSE LET w == WriteBackSweep(ReleaseSweep(s))
         IN  IF w.returned THEN w ELSE IssueSweep(ExecuteSweep(w))


(***************************************************************************)
(* The inputs of a load: the program text (already tokenised, one          *)
(* <<opcode, operands>> per line), the memory initialisers, the hardware   *)
(* configuration and the starting pc.                                      *)
(***************************************************************************)

\* default_rs / default_cycles
DefaultConfig ==
    [LOAD |-> <<2, 6>>, STORE |-> <<2, 6>>, BEQ |-> <<2, 1>>, CALL_RET |-> <<1, 1>>,
     ADD_SUB |-> <<4, 2>>, NOR |-> <<2, 1>>, MUL |-> <<2, 10>>]

\* the smallest valid configuration: one station and one cycle per type
MinimalConfig ==
    [LOAD |-> <<1, 1>>, STORE |-> <<1, 1>>, BEQ |-> <<1, 1>>, CALL_RET |-> <<1, 1>>,
     ADD_SUB |-> <<1, 1>>, NOR |-> <<1, 1>>, MUL |-> <<1, 1>>]

\* the default configuration with a single ADD_SUB station
OneAdderConfig == [DefaultConfig EXCEPT !.ADD_SUB = <<1, 2>>]

\* one ADD_SUB station with a latency of 1
OneFastAdderConfig == [DefaultConfig EXCEPT !.ADD_SUB = <<1, 1>>]

\* a valid configuration whose LOAD latency is longer than the cycle cap
SlowLoadConfig == [DefaultConfig EXCEPT !.LOAD = <<1, max_cycles + 2>>]

\* Longest enumerated program
MaxProgLen == 2

InstrPool ==
    { <<"LOAD",  <<"R1", "R0", 5>>>>,
      <<"STORE", <<"R2", "R0", 5>>>>,
      <<"ADD",   <<"R2", "R1", "R1">>>>,
      <<"NOR",   <<"R0", "R0", "R0">>>>,
      <<"MUL",   <<"R1", "R1", "R2">>>>,
      <<"BEQ",   <<"R0", "R0", -1>>>> }

EnumeratedPrograms ==
    UNION {[1..n -> InstrPool] : n \in 1..MaxProgLen}

\* every program of at most MaxProgLen pool instructions, under the default
\* and the minimal configuration, with a negative and an overlong initialiser
EnumeratedInputs ==
    [program_input : EnumeratedPrograms,
     memory_input : { <<<<5, -1>>, <<6, 70000>>>> },
     hw_config : {DefaultConfig, MinimalConfig}, start_pc : {0}]

LoadInput(program_input, memory_input, hw_config, start_pc) ==
    [program_input |-> program_input, memory_input |-> memory_input,
     hw_config |-> hw_config, start_pc |-> start_pc]

\* RAW forwarding
RawProgram ==
    << <<"ADD", <<"R1", "R0", "R0">>>>, <<"ADD", <<"R2", "R1", "R1">>>> >>

\* Structural stall: five independent ADDs
FiveAddsProgram ==
    << <<"ADD", <<"R1", "R0", "R0">>>>, <<"ADD", <<"R2", "R0", "R0">>>>,
       <<"ADD", <<"R3", "R0", "R0">>>>, <<"ADD", <<"R4", "R0", "R0">>>>,
       <<"ADD", <<"R5", "R0", "R0">>>> >>

\* LOAD then use
LoadUseProgram ==
    << <<"ADD", <<"R2", "R0", "R0">>>>, <<"LOAD", <<"R1", "R0", 5>>>>,
       <<"ADD", <<"R3", "R1", "R1">>>> >>

\* Branch not taken: R1 differs from R0 when the BEQ compares them
NotTakenProgram ==
    << <<"NOR", <<"R1", "R0", "R0">>>>, <<"BEQ", <<"R1", "R0", 2>>>>,
       <<"SUB", <<"R3", "R1", "R0">>>> >>

\* Branch taken, forward over one instruction
TakenProgram ==
    << <<"MUL", <<"R4", "R0", "R0">>>>, <<"BEQ", <<"R0", "R0", 2>>>>,
       <<"NOR", <<"R5", "R0", "R0">>>>, <<"SUB", <<"R6", "R0", "R5">>>> >>

\* CALL/RET round trip
CallRetProgram ==
    << <<"CALL", <<3>>>>, <<"ADD", <<"R3", "R0", "R0">>>>,
       <<"ADD", <<"R4", "R0", "R0">>>>, <<"ADD", <<"R2", "R0", "R0">>>>,
       <<"RET", <<>>>> >>

\* RET to an address read from memory, outside the program
LoadRetProgram ==
    << <<"LOAD", <<"R1", "R0", 5>>>>, <<"RET", <<>>>>,
       <<"NOR", <<"R7", "R0", "R0">>>> >>

\* a dependent pair followed by a BEQ whose target is negative
InvalidTargetProgram ==
    << <<"ADD", <<"R1", "R0", "R0">>>>, <<"ADD", <<"R2", "R1", "R1">>>>,
       <<"BEQ", <<"R0", "R0", -5>>>> >>

\* a BEQ whose operands differ and whose target is negative
NotTakenInvalidTargetProgram ==
    << <<"NOR", <<"R1", "R0", "R0">>>>, <<"BEQ", <<"R1", "R0", -5>>>>,
       <<"SUB", <<"R3", "R1", "R0">>>> >>

\* a STORE of a computed 16-bit value over an initialised word
StoreValueProgram ==
    << <<"NOR", <<"R2", "R0", "R0">>>>, <<"STORE", <<"R2", "R0", 5>>>>,
       <<"LOAD", <<"R3", "R0", 6>>>> >>

\* a loop over a STORE that is still waiting in its station when the BEQ
\* behind it is taken
StoreLoopProgram ==
    << <<"ADD", <<"R2", "R1", "R1">>>>, <<"STORE", <<"R2", "R0", 5>>>>,
       <<"BEQ", <<"R0", "R0", -1>>>> >>

\* arithmetic whose exact results leave the 16-bit range
ArithWrapProgram ==
    << <<"NOR", <<"R1", "R0", "R0">>>>, <<"ADD", <<"R2", "R1", "R1">>>>,
       <<"SUB", <<"R3", "R0", "R1">>>>, <<"MUL", <<"R4", "R1", "R2">>>> >>

\* a STORE that writes back in the cycle in which a BEQ with a negative target halts
HaltAfterStoreProgram ==
    << <<"MUL", <<"R2", "R0", "R0">>>>, <<"STORE", <<"R2", "R0", 5>>>>,
       <<"BEQ", <<"R0", "R0", -5>>>> >>

\* a loop of NOR and BEQ, with one instruction behind the BEQ
LoopProgram ==
    << <<"SUB", <<"R3", "R0", "R0">>>>, <<"NOR", <<"R1", "R0", "R0">>>>,
       <<"BEQ", <<"R0", "R0", -1>>>>, <<"ADD", <<"R2", "R0", "R0">>>> >>

\* a CALL issued while an earlier writer of R1 is still executing
CallOverPendingProgram ==
    << <<"MUL", <<"R1", "R0", "R0">>>>, <<"CALL", <<3>>>>,
       <<"NOR", <<"R2", "R1", "R1">>>>, <<"ADD", <<"R3", "R1", "R1">>>> >>

\* a BEQ with offset 0, which branches to itself
SelfLoopProgram == << <<"BEQ", <<"R0", "R0", 0>>>> >>

\* a STORE that waits for its data and a later LOAD of the same address,
\* which complete in the same cycle
StoreLoadProgram ==
    << <<"MUL", <<"R2", "R0", "R0">>>>, <<"STORE", <<"R2", "R0", 5>>>>,
       <<"NOR", <<"R3", "R0", "R0">>>>, <<"LOAD", <<"R1", "R0", 5>>>> >>

\* a single LOAD
OneLoadProgram == << <<"LOAD", <<"R1", "R0", 5>>>> >>

ScenarioInputs ==
    { LoadInput(RawProgram, <<>>, DefaultConfig, 0),
      LoadInput(FiveAddsProgram, <<>>, OneAdderConfig, 0),
      LoadInput(FiveAddsProgram, <<>>, OneFastAdderConfig, 0),
      LoadInput(LoadUseProgram, <<<<5, 42>>>>, DefaultConfig, 0),
      LoadInput(NotTakenProgram, <<>>, DefaultConfig, 0),
      LoadInput(TakenProgram, <<>>, DefaultConfig, 0),
      LoadInput(CallRetProgram, <<>>, DefaultConfig, 0),
      LoadInput(LoadRetProgram, <<<<5, 42>>>>, DefaultConfig, 0),
      LoadInput(InvalidTargetProgram, <<>>, DefaultConfig, 0),
      LoadInput(NotTakenInvalidTargetProgram, <<>>, DefaultConfig, 0),
      LoadInput(StoreValueProgram, <<<<5, 42>>>>, DefaultConfig, 0),
      LoadInput(StoreLoopProgram, <<>>, DefaultConfig, 0),
      LoadInput(ArithWrapProgram, <<>>, DefaultConfig, 0),
      LoadInput(HaltAfterStoreProgram, <<>>, MinimalConfig, 0),
      LoadInput(LoopProgram, <<>>, DefaultConfig, 0),
      LoadInput(StoreLoadProgram, <<<<5, 42>>>>, MinimalConfig, 0),
      LoadInput(SelfLoopProgram, <<>>, DefaultConfig, 0),
      LoadInput(CallOverPendingProgram, <<>>, DefaultConfig, 0),
      LoadInput(OneLoadProgram, <<<<5, 42>>>>, SlowLoadConfig, 0) }

LoadInputs == EnumeratedInputs \cup ScenarioInputs

\* configurations that initialize_reservation_stations rejects
NoNorStationConfig == [DefaultConfig EXCEPT !.NOR = <<0, 1>>]

ZeroCycleLoadConfig == [DefaultConfig EXCEPT !.LOAD = <<2, 0>>]

\* programs with a line that parse_instruction rejects
UnknownOpcodeProgram ==
    << <<"ADD", <<"R1", "R0", "R0">>>>, <<"JMP", <<3>>>> >>

MissingOperandProgram ==
    << <<"NOR", <<"R2", "R0", "R0">>>>, <<"ADD", <<"R1", "R0">>>> >>

CallOutOfRangeProgram ==
    << <<"SUB", <<"R3", "R0", "R0">>>>, <<"CALL", <<64>>>> >>

\* the inputs with which load_program fails
FailingLoadInputs ==
    { LoadInput(RawProgram, <<>>, NoNorStationConfig, 0),
      LoadInput(RawProgram, <<>>, ZeroCycleLoadConfig, 0),
      LoadInput(UnknownOpcodeProgram, <<<<5, 42>>>>, DefaultConfig, 0),
      LoadInput(MissingOperandProgram, <<>>, DefaultConfig, 0),
      LoadInput(CallOutOfRangeProgram, <<>>, MinimalConfig, 2),
      LoadInput(RawProgram, <<<<5, 42>>, <<6>>, <<7, 1>>>>, DefaultConfig, 0) }

\* the record of the simulator's fields
Self ==
    [cycle |-> cycle, program |-> program, current_pc |-> current_pc,
     pending_control_flow |-> pending_control_flow, registers |-> registers,
     register_status |-> register_status, memory |-> memory,
     instructions |-> instructions,
     completed_instructions |-> completed_instructions,
     branch_count |-> branch_count, mispredictions |-> mispredictions,
     res_stations |-> res_stations, returned |-> FALSE]

\* TomasuloSimulator.__init__
Init ==
    /\ cycle = 1
    /\ program = <<>>
    /\ current_pc = 0
    /\ pending_control_flow = FALSE
    /\ registers = [r \in 0..7 |-> 0]
    /\ register_status = [r \in 0..7 |-> None]
    /\ memory = <<>>
    /\ instructions = <<>>
    /\ completed_instructions = 0
    /\ branch_count = 0
    /\ mispredictions = 0
    /\ res_stations = <<>>

\* load_program with valid inputs; one load per session
LoadProgram ==
    /\ program = <<>> /\ res_stations = <<>>
    /\ \E in \in LoadInputs :
         LET built == initialize_reservation_stations(in.hw_config)
             prog == ParseProgram(in.program_input, in.start_pc)
         IN  /\ built.ok
             /\ res_stations' = built.stations
             /\ cycle' = 1
             /\ current_pc' = in.start_pc
             /\ pending_control_flow' = FALSE
             /\ registers' = [r \in 0..7 |-> 0]
             /\ register_status' = [r \in 0..7 |-> None]
             /\ memory' = LoadMemory(<<>>, in.memory_input)
             /\ completed_instructions' = 0
             /\ branch_count' = 0
             /\ mispredictions' = 0
             /\ program' = prog
             /\ instructions' = Indices(Len(prog))

\* load_program on a fresh engine with an input that makes it fail: a
\* configuration that initialize_reservation_stations rejects leaves the
\* stations built so far and returns; a memory initialiser or a program
\* line that raises ends the load after the reset, with the initialisers
\* and instructions before it already stored
LoadProgramFails ==
    /\ program = <<>> /\ res_stations = <<>>
    /\ \E in \in FailingLoadInputs :
         LET built == initialize_reservation_stations(in.hw_config)
             mem_ok == LeadingInitialisers(in.memory_input)
             prog_ok == LeadingLines(in.program_input)
             prog == IF mem_ok < Len(in.memory_input) THEN <<>>
                     ELSE ParseProgram(SubSeq(in.program_input, 1, prog_ok), in.start_pc)
         IN  /\ res_stations' = built.stations
             /\ IF ~built.ok
                THEN UNCHANGED <<cycle, program, current_pc, pending_control_flow,
                                 registers, register_status, memory, instructions,
                                 completed_instructions, branch_count, mispredictions>>
                ELSE /\ \/ mem_ok < Len(in.memory_input)
                        \/ prog_ok < Len(in.program_input)
                     /\ cycle' = 1
                     /\ current_pc' = in.start_pc
                     /\ pending_control_flow' = FALSE
                     /\ registers' = [r \in 0..7 |-> 0]
                     /\ register_status' = [r \in 0..7 |-> None]
                     /\ memory' = LoadMemory(<<>>, SubSeq(in.memory_input, 1, mem_ok))
                     /\ completed_instructions' = 0
                     /\ branch_count' = 0
                     /\ mispredictions' = 0
                     /\ program' = prog
                     /\ instructions' = Indices(Len(prog))

\* the test of step and run_to_end: queue empty and no station busy
Finished ==
    /\ instructions = <<>>
    /\ \A k \in DOMAIN res_stations : ~res_stations[k].busy

\* step, when the simulation is not finished: one cycle, then cycle += 1
Step ==
    /\ ~Finished
    /\ LET t == simulate_cycle(Self)
       IN  /\ cycle' = cycle + 1
           /\ program' = t.program
           /\ current_pc' = t.current_pc
           /\ pending_control_flow' = t.pending_control_flow
           /\ registers' = t.registers
           /\ register_status' = t.register_status
           /\ memory' = t.memory
           /\ instructions' = t.instructions
           /\ completed_instructions' = t.completed_instructions
           /\ branch_count' = t.branch_count
           /\ mispredictions' = t.mispredictions
           /\ res_stations' = t.res_stations

\* show_results: "total_cycles = self.cycle"
total_cycles == cycle

\* step, when the simulation is finished: show_results, no field changes
ShowResults ==
    /\ Finished
    /\ UNCHANGED vars

Next == LoadProgram \/ LoadProgramFails \/ Step \/ ShowResults

Spec == Init /\ [][Next]_vars

\* what step and run_to_end do to the cycle counter on an unfinished engine
Advance == ~Finished /\ cycle' = cycle + 1

\* run_to_end, and a user who keeps pressing step: while the engine is not
\* finished the next cycle is eventually run.  Under Next the steps that
\* advance the counter are exactly the Step steps.
FairSpec == Spec /\ WF_cycle(Advance)


(***************************************************************************)
(* Properties                                                              *)
(***************************************************************************)

StationIds == DOMAIN res_stations

\* the instruction object held by station k
Held(k) == program[Val(res_stations[k].instruction)]

\* the register an instruction writes: its first operand for LOAD and the
\* arithmetic opcodes, R1 for CALL, none (-1) for STORE, BEQ and RET
DestReg(instr) ==
    CASE instr.opcode \in {"LOAD", "ADD", "SUB", "NOR", "MUL"} -> RegIndex(instr.operands[1])
      [] instr.opcode = "CALL" -> 1
      [] OTHER -> -1

\* C1: in every reachable state, a register whose status is a station name S
\* has exactly one station named S, which is busy and holds an instruction
\* whose destination is that register (R1 for a CALL).
C1_StatusNamesBusyProducer ==
    \A R \in 0..7 :
        register_status[R] # None =>
            LET named == {k \in StationIds : res_stations[k].name = Val(register_status[R])}
            IN  /\ Cardinality(named) = 1
                /\ \A k \in named :
                       /\ res_stations[k].busy
                       /\ res_stations[k].instruction # None
                       /\ DestReg(Held(k)) = R

\* the program holds only ADD, SUB, NOR, MUL and LOAD
StraightLineArith ==
    \A i \in DOMAIN program : program[i].opcode \in {"ADD", "SUB", "NOR", "MUL", "LOAD"}

\* one instruction executed on its own on the register file regs (R0 reads
\* as 0 and ignores writes); memory is never written by these opcodes
InOrderStep(regs, instr) ==
    LET d == RegIndex(instr.operands[1])
        v == IF instr.opcode = "LOAD"
             THEN MemGet(memory, regs[RegIndex(instr.operands[2])] + instr.operands[3])
             ELSE ArithResult(instr.opcode, regs[RegIndex(instr.operands[2])],
                              regs[RegIndex(instr.operands[3])])
    IN  IF d = 0 THEN regs ELSE [regs EXCEPT ![d] = v]

RECURSIVE InOrder(_, _)
InOrder(regs, i) ==
    IF i > Len(program) THEN regs ELSE InOrder(InOrderStep(regs, program[i]), i + 1)

\* C2: when the simulation of a straight-line ADD/SUB/NOR/MUL/LOAD program is
\* finished, the register file equals the one obtained by executing the
\* instructions one at a time in program order.
C2_FinalRegistersAreInOrder ==
    (program # <<>> /\ StraightLineArith /\ Finished) =>
        registers = InOrder([r \in 0..7 |-> 0], 1)

\* C3: in every reachable state registers[0] is 0.
C3_R0IsZero == registers[0] = 0

\* C4: in every reachable state the register-status entry of R0 is none.
C4_R0StatusNone == register_status[0] = None

\* C5: in every reachable state every register value and every memory cell
\* is an integer in 0..65535.
C5_ValuesAre16Bit ==
    /\ \A r \in 0..7 : registers[r] \in 0..MASK16
    /\ \A x \in DOMAIN memory : memory[x] \in 0..MASK16

\* C6: in every reachable state, an instruction whose write_cycle is defined
\* has issue_cycle, start_exec_cycle and end_exec_cycle defined, and
\* issue_cycle <= start_exec_cycle <= end_exec_cycle <= write_cycle.
C6_TimestampsOrdered ==
    \A i \in DOMAIN program :
        program[i].write_cycle # None =>
            /\ program[i].issue_cycle # None
            /\ program[i].start_exec_cycle # None
            /\ program[i].end_exec_cycle # None
            /\ Val(program[i].issue_cycle) <= Val(program[i].start_exec_cycle)
            /\ Val(program[i].start_exec_cycle) <= Val(program[i].end_exec_cycle)
            /\ Val(program[i].end_exec_cycle) <= Val(program[i].write_cycle)

\* the latency of the stations of the type that executes opcode: the
\* configured count, less 1 for LOAD and STORE
EffectiveLatency(opcode) ==
    LET k == CHOOSE k \in StationIds : res_stations[k].op_type = op_to_rs(opcode)
    IN  res_stations[k].exec_cycles

\* C7: for every instruction that has finished executing,
\* end_exec_cycle - start_exec_cycle + 1 equals the effective latency of the
\* station type that executed it.
C7_ExecSpanIsLatency ==
    \A i \in DOMAIN program :
        (program[i].start_exec_cycle # None /\ program[i].end_exec_cycle # None) =>
            Val(program[i].end_exec_cycle) - Val(program[i].start_exec_cycle) + 1
                = EffectiveLatency(program[i].opcode)


\* the call of this cycle takes the cycle-cap branch
CycleCapHit == cycle > max_cycles

\* station b completes in this cycle with a BEQ whose target is negative
InvalidTargetAt(b) ==
    /\ IsCompleted(res_stations[b])
    /\ Held(b).opcode = "BEQ"
    /\ Held(b).pc + 1 + (Held(b).operands[3] - 1) < 0

\* the call of this cycle takes the invalid-branch-target branch
InvalidTargetHit == ~CycleCapHit /\ \E b \in StationIds : InvalidTargetAt(b)

\* station k is busy, not executing and waits on no producer
ReadyToStart(k) ==
    /\ res_stations[k].busy
    /\ ~res_stations[k].executing
    /\ res_stations[k].qj = None
    /\ res_stations[k].qk = None

\* station k waits on a producer
Waiting(k) ==
    /\ res_stations[k].busy
    /\ res_stations[k].qj # None \/ res_stations[k].qk # None

\* the stations on which station k waits complete in this cycle's Write-Back
\* and the cycle runs all its sweeps: k receives its last outstanding operand
GetsLastOperand(k) ==
    /\ Waiting(k)
    /\ ~CycleCapHit /\ ~InvalidTargetHit
    /\ \A q \in {res_stations[k].qj, res_stations[k].qk} \ {None} :
          \E p \in StationIds :
              /\ res_stations[p].name = Val(q)
              /\ IsCompleted(res_stations[p])
              /\ DestReg(Held(p)) >= 0

\* at the end of the previous cycle station k received its last outstanding
\* operand: it was issued before that cycle and is still waiting to start
ReceivedLastOperand(k) ==
    /\ ReadyToStart(k)
    /\ ~res_stations[k].wrote_result
    /\ Val(Held(k).issue_cycle) < cycle - 1

\* station k starts executing in this cycle
StartsNow(k) ==
    /\ res_stations'[k].executing
    /\ program'[Val(res_stations[k].instruction)].start_exec_cycle = Some(cycle)

SourceRegs(instr) ==
    CASE instr.opcode \in {"ADD", "SUB", "NOR", "MUL"} ->
            {RegIndex(instr.operands[2]), RegIndex(instr.operands[3])}
      [] instr.opcode = "LOAD" -> {RegIndex(instr.operands[2])}
      [] instr.opcode \in {"STORE", "BEQ"} ->
            {RegIndex(instr.operands[1]), RegIndex(instr.operands[2])}
      [] instr.opcode = "RET" -> {1}
      [] OTHER -> {}

PerformsWriteBack(k) ==
    /\ ~CycleCapHit
    /\ IsCompleted(res_stations[k])
    /\ \A b \in StationIds : InvalidTargetAt(b) => k < b

\* station k ends the cycle busy with wrote_result set, holding the same instruction
StaysWrote(k) ==
    /\ res_stations'[k].busy
    /\ res_stations'[k].wrote_result
    /\ res_stations'[k].instruction = res_stations[k].instruction

\* station k ends the cycle cleared, or cleared and then taken by this cycle's Issue
ReleasedThenFreeOrTaken(k) ==
    \/ res_stations'[k] = clear(res_stations[k])
    \/ /\ res_stations'[k].busy
       /\ res_stations'[k].instruction # None
       /\ program'[Val(res_stations'[k].instruction)].issue_cycle = Some(cycle)
       /\ ~res_stations'[k].executing
       /\ ~res_stations'[k].wrote_result
       /\ ~res_stations'[k].just_wrote
       /\ res_stations'[k].cycles_left = 0

\* C9, as stated: a station that performs Write-Back in cycle C is busy with
\* wrote_result set at the end of cycle C.
C9_WroteStaysBusy ==
    [][\A k \in StationIds : PerformsWriteBack(k) => StaysWrote(k)]_vars

\* C9, amended: a station that performs Write-Back in cycle C stays busy with
\* wrote_result set until the end of cycle C unless an invalid-branch-target
\* halt clears every station in cycle C; a station with wrote_result set is
\* cleared in the next cycle, and only after that may that cycle's Issue take it.
C9_WroteThenReleased ==
    [][\A k \in StationIds :
          /\ (PerformsWriteBack(k) /\ ~InvalidTargetHit) => StaysWrote(k)
          /\ res_stations[k].wrote_result => ReleasedThenFreeOrTaken(k)]_vars

\* C9 witness: the only station of its type holds an instruction issued in
\* the last cycle, one cycle after an instruction of that type wrote back.
C9_Witness ==
    \E k \in StationIds :
        /\ res_stations[k].busy
        /\ Held(k).issue_cycle = Some(cycle - 1)
        /\ Cardinality({j \in StationIds : res_stations[j].op_type = res_stations[k].op_type}) = 1
        /\ \E i \in DOMAIN program :
              /\ op_to_rs(program[i].opcode) = res_stations[k].op_type
              /\ program[i].write_cycle = Some(cycle - 2)

\* station k holds a BEQ, CALL or RET that has not performed Write-Back
ControlInFlight(k) ==
    /\ res_stations[k].busy
    /\ ~res_stations[k].wrote_result
    /\ Held(k).opcode \in {"BEQ", "CALL", "RET"}

\* the Write-Back sweep of this cycle reaches station k
ReachedByWriteBack(k) ==
    /\ ~CycleCapHit
    /\ IsCompleted(res_stations[k])
    /\ \A b \in StationIds : InvalidTargetAt(b) => k <= b

\* no station becomes busy in this cycle
NoStationTaken ==
    \A j \in StationIds : ~res_stations[j].busy => ~res_stations'[j].busy

\* C10, as stated: in every cycle after the one in which a BEQ, CALL or RET
\* was issued and before the one in which it performs Write-Back, no
\* instruction is issued: the queue is unchanged and no station becomes busy.
C10_NoIssueQueueKept ==
    [][\A k \in StationIds :
          (ControlInFlight(k) /\ ~ReachedByWriteBack(k)) =>
              (instructions' = instructions /\ NoStationTaken)]_vars

\* C10, amended: in every such cycle no instruction is issued: no station
\* becomes busy, no issue_cycle changes, and the queue is unchanged unless
\* the cycle-cap halt empties it.
C10_NoIssueWhileControlInFlight ==
    [][\A k \in StationIds :
          (ControlInFlight(k) /\ ~ReachedByWriteBack(k)) =>
              /\ NoStationTaken
              /\ \A i \in DOMAIN program : program'[i].issue_cycle = program[i].issue_cycle
              /\ \/ instructions' = instructions
                 \/ CycleCapHit /\ instructions' = <<>>]_vars

\* C10 witness: a control instruction issued before the last cycle is still
\* in flight, and the head of the queue was not issued although a station
\* of its type is free.
C10_Witness ==
    \E k \in StationIds :
        /\ ControlInFlight(k)
        /\ pending_control_flow
        /\ Val(Held(k).issue_cycle) < cycle - 1
        /\ instructions # <<>>
        /\ \E j \in StationIds :
              /\ res_stations[j].op_type = op_to_rs(program[Head(instructions)].opcode)
              /\ ~res_stations[j].busy

\* station k writes back in this cycle a CALL, a RET, or a BEQ that resolves
\* taken with a target that is not negative
Redirects(k) ==
    /\ ReachedByWriteBack(k)
    /\ \/ Held(k).opcode \in {"CALL", "RET"}
       \/ /\ Held(k).opcode = "BEQ"
          /\ res_stations[k].vj = res_stations[k].vk
          /\ ~InvalidTargetAt(k)

\* the new target pc of the redirecting station k
TargetOf(k) ==
    CASE Held(k).opcode = "CALL" -> Held(k).operands[1]
      [] Held(k).opcode = "RET"  -> Val(res_stations[k].vj)
      [] Held(k).opcode = "BEQ"  -> Held(k).pc + Held(k).operands[3]

\* the suffix of the program image that starts at the instruction whose pc is T
SuffixFrom(T) ==
    IF \E i \in DOMAIN program : program[i].pc = T
    THEN LET i == CHOOSE j \in DOMAIN program : program[j].pc = T
         IN  SubSeq(Indices(Len(program)), i, Len(program))
    ELSE <<>>

\* the simulator's fields at the end of this cycle's Write-Back sweep
AfterWriteBack == WriteBackSweep(ReleaseSweep(Self))

\* C11: after the Write-Back of a CALL, a RET or a taken BEQ with new target
\* pc T, the queue is exactly the program suffix starting at pc T (empty when
\* no instruction has pc T) and pending_control_flow is false; the Issue of
\* the same cycle can then only take the head of that queue.
C11_QueueRefetchedFromTarget ==
    [][\A k \in StationIds :
          Redirects(k) =>
              LET q == SuffixFrom(TargetOf(k))
              IN  /\ AfterWriteBack.instructions = q
                  /\ ~AfterWriteBack.pending_control_flow
                  /\ AfterWriteBack.current_pc = TargetOf(k)
                  /\ \/ instructions' = q /\ ~pending_control_flow'
                     \/ /\ q # <<>>
                        /\ instructions' = Tail(q)
                        /\ program'[Head(q)].issue_cycle = Some(cycle)]_vars

\* C11 witness: a RET wrote back in the last cycle and the queue was refilled
\* from the pc it returned to
C11_Witness ==
    \E k \in StationIds :
        /\ res_stations[k].wrote_result
        /\ Held(k).opcode = "RET"
        /\ Held(k).write_cycle = Some(cycle - 1)
        /\ instructions # <<>>
        /\ program[Head(instructions)].pc \in {current_pc, current_pc + 1}
        /\ current_pc < Held(k).pc

\* the stations whose BEQ the Write-Back sweep of this cycle reaches
BranchesWritten ==
    {k \in StationIds : ReachedByWriteBack(k) /\ Held(k).opcode = "BEQ"}

\* C12, as stated: branch_count increases by 1 at each Write-Back of a BEQ
\* and by nothing else; mispredictions increases by 1 at a BEQ Write-Back if
\* and only if Vj = Vk, and by nothing else; mispredictions <= branch_count.
C12_CountersFollowBranches ==
    [][/\ branch_count' = branch_count + Cardinality(BranchesWritten)
       /\ mispredictions' = mispredictions + Cardinality(
              {k \in BranchesWritten : res_stations[k].vj = res_stations[k].vk})
       /\ mispredictions' <= branch_count']_vars

\* C12, amended: as stated, except that mispredictions increases at a BEQ
\* Write-Back if and only if Vj = Vk and the target is not negative.
C12_CountersFollowValidBranches ==
    [][/\ branch_count' = branch_count + Cardinality(BranchesWritten)
       /\ mispredictions' = mispredictions + Cardinality(
              {k \in BranchesWritten :
                  res_stations[k].vj = res_stations[k].vk /\ ~InvalidTargetAt(k)})
       /\ mispredictions' <= branch_count']_vars

\* C12 witness: a taken BEQ wrote back in the last cycle of a run in which
\* another BEQ Write-Back was counted before
C12_Witness ==
    \E k \in StationIds :
        /\ res_stations[k].wrote_result
        /\ Held(k).opcode = "BEQ"
        /\ Held(k).write_cycle = Some(cycle - 1)
        /\ res_stations[k].vj = res_stations[k].vk
        /\ mispredictions >= 1
        /\ branch_count >= 2

\* no instruction is stamped by an Execute or Issue sweep of this cycle
NoExecuteNoIssue ==
    \A i \in DOMAIN program :
        /\ program'[i].issue_cycle = program[i].issue_cycle
        /\ program'[i].start_exec_cycle = program[i].start_exec_cycle
        /\ program'[i].end_exec_cycle = program[i].end_exec_cycle

\* C13: at the Write-Back of a BEQ at pc p with offset o the target is p + o
\* (a taken BEQ with a target that is not negative sets current_pc to it);
\* when the target is negative the simulation halts in that cycle: the
\* queue is emptied without refetch, every station is cleared,
\* pending_control_flow is false, Execute and Issue are skipped, and the
\* simulation is finished.
C13_NegativeTargetHalts ==
    [][\A k \in BranchesWritten :
          LET target == Held(k).pc + Held(k).operands[3]
          IN  /\ (target >= 0 /\ res_stations[k].vj = res_stations[k].vk)
                    => current_pc' = target
              /\ target < 0 =>
                    /\ instructions' = <<>>
                    /\ \A j \in StationIds :
                          res_stations'[j] = clear(res_stations[j])
                    /\ ~pending_control_flow'
                    /\ current_pc' = current_pc
                    /\ NoExecuteNoIssue
                    /\ Finished']_vars

\* C13 witness: the run was halted in the last cycle by a BEQ with a
\* negative target, which carries that cycle as its write_cycle
C13_Witness ==
    /\ Finished
    /\ \E i \in DOMAIN program :
          /\ program[i].opcode = "BEQ"
          /\ program[i].pc + program[i].operands[3] < 0
          /\ program[i].write_cycle = Some(cycle - 1)
          /\ ~program[i].completed

\* station k holds a CALL that has not performed Write-Back
CallInFlight(k) == ControlInFlight(k) /\ Held(k).opcode = "CALL"

\* C14: a CALL station is R1's tagged producer from its Issue on; at the
\* Write-Back of a CALL at pc p with label L, R1 becomes p + 1 and the
\* status of R1 becomes none, every station waiting on the CALL station's
\* name receives p + 1, current_pc becomes L and the queue is refetched
\* from pc L.
C14_CallLinksAndJumps ==
    [][\A k \in StationIds :
          /\ CallInFlight(k) => register_status[1] = Some(res_stations[k].name)
          /\ (CallInFlight(k) /\ ReachedByWriteBack(k)) =>
                LET link == Held(k).pc + 1
                    L == Held(k).operands[1]
                    w == AfterWriteBack
                IN  /\ w.registers[1] = link
                    /\ w.register_status[1] = None
                    /\ registers'[1] = link
                    /\ \A j \in StationIds :
                          /\ res_stations[j].qj = Some(res_stations[k].name) =>
                                (w.res_stations[j].vj = Some(link) /\ w.res_stations[j].qj = None)
                          /\ res_stations[j].qk = Some(res_stations[k].name) =>
                                (w.res_stations[j].vk = Some(link) /\ w.res_stations[j].qk = None)
                    /\ w.current_pc = L
                    /\ current_pc' = L
                    /\ w.instructions = SuffixFrom(L)]_vars

\* C14 witness: a CALL wrote back in the last cycle; R1 holds its pc + 1,
\* R1 has no producer and current_pc is its label
C14_Witness ==
    \E k \in StationIds :
        /\ res_stations[k].wrote_result
        /\ Held(k).opcode = "CALL"
        /\ Held(k).write_cycle = Some(cycle - 1)
        /\ registers[1] = Held(k).pc + 1
        /\ register_status[1] = None
        /\ current_pc = Held(k).operands[1]

\* the loaded program is CallRetProgram at starting pc 0 under the default
\* configuration
CallRetRun ==
    /\ Len(program) = Len(CallRetProgram)
    /\ \A i \in DOMAIN program :
          /\ <<program[i].opcode, program[i].operands>> = CallRetProgram[i]
          /\ program[i].pc = i - 1
    /\ [k \in DOMAIN res_stations |->
           <<res_stations[k].name, res_stations[k].exec_cycles>>]
         = [k \in DOMAIN initialize_reservation_stations(DefaultConfig).stations |->
           <<initialize_reservation_stations(DefaultConfig).stations[k].name,
             initialize_reservation_stations(DefaultConfig).stations[k].exec_cycles>>]

\* C15, as stated: for CALL 3 / filler / filler / ADD R2,R0,R0 / RET under the
\* default configuration from pc 0, the finished state is reached without
\* hitting the cycle cap, and current_pc is then 2.
C15_CallRetEndsAtPc2 ==
    (CallRetRun /\ Finished) => (cycle <= max_cycles + 1 /\ current_pc = 2)

\* C15, amended: the run is finished only by the cycle cap, in the call made
\* with cycle = 1001, and current_pc is then 1, the value of R1 that every
\* RET returned to.
C15_CallRetLoopsToCap ==
    CallRetRun =>
        /\ Finished <=> cycle = max_cycles + 2
        /\ Finished => (current_pc = 1 /\ registers[1] = 1)
        /\ cycle <= max_cycles + 2

\* C15 witness: the CALL/RET program has finished
C15_Witness ==
    CallRetRun /\ Finished /\ current_pc = 1 /\ completed_instructions > 5

\* a timestamp slot is empty or holds at most n
StampAtMost(o, n) == o = None \/ Val(o) <= n

\* C16: a call made with cycle <= 1000 runs its sweeps (a completed station
\* writes back, an executing station counts down); a call made with
\* cycle > 1000 empties the queue, clears every station, sets
\* pending_control_flow false and leaves registers, memory and every
\* timestamp unchanged; no timestamp ever exceeds 1000.
C16_CycleCap ==
    [][/\ (~CycleCapHit /\ ~InvalidTargetHit) =>
             \A k \in StationIds :
                /\ IsCompleted(res_stations[k]) =>
                      program'[Val(res_stations[k].instruction)].write_cycle = Some(cycle)
                /\ (res_stations[k].busy /\ res_stations[k].executing
                      /\ res_stations[k].cycles_left > 0) =>
                      res_stations'[k].cycles_left = res_stations[k].cycles_left - 1
       /\ CycleCapHit =>
             /\ instructions' = <<>>
             /\ \A j \in StationIds : res_stations'[j] = clear(res_stations[j])
             /\ ~pending_control_flow'
             /\ registers' = registers
             /\ memory' = memory
             /\ NoExecuteNoIssue
             /\ \A i \in DOMAIN program : program'[i].write_cycle = program[i].write_cycle
       /\ \A i \in DOMAIN program' :
             /\ StampAtMost(program'[i].issue_cycle, max_cycles)
             /\ StampAtMost(program'[i].start_exec_cycle, max_cycles)
             /\ StampAtMost(program'[i].end_exec_cycle, max_cycles)
             /\ StampAtMost(program'[i].write_cycle, max_cycles)]_vars

\* C16 witness: the cap ended the run while an instruction that started in
\* cycle 1000 or earlier had not written back
C16_Witness ==
    /\ Finished
    /\ cycle = max_cycles + 2
    /\ \E i \in DOMAIN program :
          /\ program[i].start_exec_cycle # None
          /\ program[i].write_cycle = None

\* a program has been loaded
Loaded == program # <<>>

\* C17: after a load, advancing the engine cycle by cycle eventually reaches
\* the finished state, at the latest in the call made with cycle = 1001 (so
\* an unfinished engine never has cycle > 1001), and a finished engine stays
\* finished.
C17_AlwaysTerminates ==
    /\ (Loaded /\ ~Finished) ~> Finished
    /\ [](~Finished => cycle <= max_cycles + 1)
    /\ [][(Loaded /\ Finished) => Finished']_vars

\* C17 witness: a BEQ with offset 0 looped until the call made with
\* cycle = 1001 finished the run
C17_Witness ==
    /\ Finished
    /\ cycle = max_cycles + 2
    /\ \E i \in DOMAIN program :
          program[i].opcode = "BEQ" /\ program[i].operands[3] = 0

\* C18: a cycle call that fails (cycle > 1000, or a BEQ writing back with a
\* negative target) changes none of the statistics: cycle count, completed
\* instructions, branches and mispredictions stay as they were.
C18_FailureFreezesStatistics ==
    [][(CycleCapHit \/ InvalidTargetHit) =>
          /\ cycle' = cycle
          /\ completed_instructions' = completed_instructions
          /\ branch_count' = branch_count
          /\ mispredictions' = mispredictions]_vars

\* C19: a load that fails leaves the whole engine state as it was before
\* the load call.
C19_FailedLoadChangesNothing ==
    [][LoadProgramFails => UNCHANGED vars]_vars

\* the orders in which a Write-Back sweep could visit the stations of seq
VisitingOrders(seq) ==
    {p \in [1..Len(seq) -> {seq[i] : i \in 1..Len(seq)}] :
        \A i, j \in 1..Len(seq) : p[i] = p[j] => i = j}

\* the cycle as simulate_cycle runs it, with Write-Back visiting in order p
CycleVisiting(p) ==
    LET w == WriteBackLoop(ReleaseSweep(Self), p)
    IN  IF w.returned THEN w ELSE IssueSweep(ExecuteSweep(w))

\* the fields the claim compares
Outcome(s) ==
    <<s.registers, s.register_status, s.memory, s.instructions, s.program,
      s.completed_instructions, s.branch_count, s.mispredictions>>

\* C20: whatever the order in which Write-Back visits the stations that
\* complete in a cycle, the cycle ends with the same registers, register
\* status, memory, queue, timestamps and statistics as with the order of
\* the code.
C20_VisitingOrderIrrelevant ==
    (~Finished /\ ~CycleCapHit) =>
        \A p \in VisitingOrders(CompletedStations(ReleaseSweep(Self))) :
            Outcome(CycleVisiting(p)) = Outcome(simulate_cycle(Self))

\* the stations of type ADD_SUB
AddSubStations == {k \in StationIds : res_stations[k].op_type = "ADD_SUB"}

\* the loaded program is FiveAddsProgram and there is a single ADD_SUB station
FiveAddsRun ==
    /\ Len(program) = Len(FiveAddsProgram)
    /\ \A i \in DOMAIN program :
          <<program[i].opcode, program[i].operands>> = FiveAddsProgram[i]
    /\ Cardinality(AddSubStations) = 1

\* the latency of the single ADD_SUB station
AddLatency == res_stations[CHOOSE k \in AddSubStations : TRUE].exec_cycles

\* consecutive ADDs that have both been issued were issued d cycles apart
IssuedEvery(d) ==
    \A i \in 1..(Len(program) - 1) :
        (program[i].issue_cycle # None /\ program[i + 1].issue_cycle # None) =>
            Val(program[i + 1].issue_cycle) - Val(program[i].issue_cycle) = d

\* C21, as stated: with one ADD_SUB station and five independent ADDs at
\* most one ADD occupies a station, and the issue_cycles form an arithmetic
\* progression with common difference ADD latency + 1.
C21_IssueEveryLatencyPlus1 ==
    FiveAddsRun =>
        /\ Cardinality({k \in StationIds : res_stations[k].busy}) <= 1
        /\ IssuedEvery(AddLatency + 1)
        /\ Finished => \A i \in DOMAIN program : program[i].issue_cycle # None

\* C21, amended: the common difference is ADD latency + 3.
C21_IssueEveryLatencyPlus3 ==
    FiveAddsRun =>
        /\ Cardinality({k \in StationIds : res_stations[k].busy}) <= 1
        /\ IssuedEvery(AddLatency + 3)
        /\ Finished => \A i \in DOMAIN program : program[i].issue_cycle # None

\* C21 witness: the five ADDs have all been issued through the one station
\* and the run is finished
C21_Witness ==
    /\ FiveAddsRun
    /\ Finished
    /\ program[5].issue_cycle = Some(Val(program[1].issue_cycle) + 4 * (AddLatency + 3))

\* C22: a timestamp that has been set is never overwritten.
C22_TimestampsSetOnce ==
    [][\A i \in DOMAIN program :
          /\ program[i].issue_cycle # None =>
                program'[i].issue_cycle = program[i].issue_cycle
          /\ program[i].start_exec_cycle # None =>
                program'[i].start_exec_cycle = program[i].start_exec_cycle
          /\ program[i].end_exec_cycle # None =>
                program'[i].end_exec_cycle = program[i].end_exec_cycle
          /\ program[i].write_cycle # None =>
                program'[i].write_cycle = program[i].write_cycle]_vars


\* The source operands the Issue stage sets up for an opcode: "j" is Vj/Qj,
\* "k" is Vk/Qk.
UsedOperands(opcode) ==
    CASE opcode = "LOAD" -> {"j"}
      [] opcode = "RET" -> {"j"}
      [] opcode = "CALL" -> {}
      [] OTHER -> {"j", "k"}

\* C23: no busy station has both Vj and Qj set, nor both Vk and Qk; for every
\* source operand the held opcode uses, exactly one of the two is set.
C23_ValueXorTag ==
    \A k \in StationIds :
        res_stations[k].busy =>
            LET rs == res_stations[k]
                used == UsedOperands(Held(k).opcode)
            IN  /\ ~(rs.vj # None /\ rs.qj # None)
                /\ ~(rs.vk # None /\ rs.qk # None)
                /\ "j" \in used => (rs.vj # None) # (rs.qj # None)
                /\ "k" \in used => (rs.vk # None) # (rs.qk # None)

\* C23 witness: a busy station that was issued with a tag has received the
\* value from the CDB and now holds both operands as values, not yet started
C23_Witness ==
    \E k \in StationIds :
        /\ res_stations[k].busy
        /\ ~res_stations[k].executing
        /\ res_stations[k].vj # None /\ res_stations[k].qj = None
        /\ res_stations[k].vk # None /\ res_stations[k].qk = None
        /\ Held(k).start_exec_cycle = None
        /\ Val(Held(k).issue_cycle) + 1 < cycle


\* C24: total_cycles is the number of cycle calls performed since the load:
\* it is 0 when the load returns and every cycle call adds 1 to it, so a
\* program that needs N calls to reach the finished state reports N.
C24_TotalCyclesCountsCalls ==
    [][/\ LoadProgram => total_cycles' = 0
       /\ Step => total_cycles' = total_cycles + 1]_vars


\* the simulator's fields just before this cycle's Write-Back sweep visits
\* station k: the completed stations before k have been processed
BeforeWriteBackOf(k) ==
    LET s0 == ReleaseSweep(Self)
    IN  WriteBackLoop(s0, SelectSeq(CompletedStations(s0), LAMBDA j : j < k))

\* the register result of the instruction in station k, from the fields s
RegisterResult(s, k) ==
    LET rs == s.res_stations[k]
        instr == s.program[Val(rs.instruction)]
    IN  CASE instr.opcode = "LOAD" -> MemGet(s.memory, Val(rs.vj) + Val(rs.a))
          [] instr.opcode = "CALL" -> instr.pc + 1
          [] OTHER -> ArithResult(instr.opcode, Val(rs.vj), Val(rs.vk))

\* stations k1 and k2 hold unwritten instructions for the same register and
\* k2's was issued later
LaterWriter(k1, k2) ==
    /\ res_stations[k1].busy /\ ~res_stations[k1].wrote_result
    /\ res_stations[k2].busy /\ ~res_stations[k2].wrote_result
    /\ res_stations[k1].instruction # res_stations[k2].instruction
    /\ DestReg(Held(k1)) # -1
    /\ DestReg(Held(k1)) = DestReg(Held(k2))
    /\ Val(Held(k1).issue_cycle) < Val(Held(k2).issue_cycle)

\* C25: at the Write-Back of a station S with a register result for R, R is
\* written and status[R] set to none iff status[R] is S's name just before
\* (otherwise both are unchanged), and in both cases every station waiting on
\* S in Qj / Qk gets the result in Vj / Vk with the tag cleared. The registers
\* at the end of the cycle are those the Write-Back sweep leaves; and of two
\* in-flight writers of a register, the one issued earlier never owns its
\* status, so the value of the one issued last is the one that stays.
C25_OwnerWritesRegister ==
    [][/\ \A k \in StationIds :
             (ReachedByWriteBack(k) /\ DestReg(Held(k)) # -1) =>
                 LET b == BeforeWriteBackOf(k)
                     a == WriteBackStation(b, k)
                     S == res_stations[k].name
                     R == DestReg(Held(k))
                     v == RegisterResult(b, k)
                 IN  /\ IF b.register_status[R] = Some(S)
                        THEN a.registers[R] = v /\ a.register_status[R] = None
                        ELSE /\ a.registers[R] = b.registers[R]
                             /\ a.register_status[R] = b.register_status[R]
                     /\ \A o \in StationIds :
                           /\ b.res_stations[o].qj = Some(S) =>
                                 /\ a.res_stations[o].vj = Some(v)
                                 /\ a.res_stations[o].qj = None
                           /\ b.res_stations[o].qk = Some(S) =>
                                 /\ a.res_stations[o].vk = Some(v)
                                 /\ a.res_stations[o].qk = None
       /\ (cycle' = cycle + 1 /\ ~CycleCapHit) => registers' = AfterWriteBack.registers
       /\ \A k1, k2 \in StationIds :
             LaterWriter(k1, k2) =>
                 register_status[DestReg(Held(k1))] # Some(res_stations[k1].name)]_vars


\* C25 witness: a station wrote back a register result in the last cycle
\* without owning the register's status, which names a later-issued writer
\* still in flight that received the result as an operand
C25_Witness ==
    \E k1, k2 \in StationIds :
        /\ res_stations[k1].busy /\ res_stations[k1].wrote_result
        /\ Held(k1).write_cycle = Some(cycle - 1)
        /\ DestReg(Held(k1)) # -1
        /\ res_stations[k2].busy /\ ~res_stations[k2].wrote_result
        /\ DestReg(Held(k2)) = DestReg(Held(k1))
        /\ Val(Held(k1).issue_cycle) < Val(Held(k2).issue_cycle)
        /\ register_status[DestReg(Held(k1))] = Some(res_stations[k2].name)
        /\ res_stations[k2].vj # None /\ res_stations[k2].qj = None
        /\ Held(k2).start_exec_cycle = None


\* station k performs Write-Back in this cycle, as seen from outside: it held
\* an unwritten instruction that gets this cycle's write stamp, and it ends
\* the cycle with wrote_result set or cleared by a halt
WritesNow(k) ==
    /\ res_stations[k].busy
    /\ ~res_stations[k].wrote_result
    /\ program'[Val(res_stations[k].instruction)].write_cycle = Some(cycle)
    /\ res_stations'[k].wrote_result \/ ~res_stations'[k].busy

\* station k is busy, executing, has cycles_left = 0 and has not yet written
ExecutionDone(k) ==
    /\ res_stations[k].busy
    /\ res_stations[k].executing
    /\ res_stations[k].cycles_left = 0
    /\ ~res_stations[k].wrote_result

\* the instruction of station k does not start or end execution in this cycle
NoStartOrEndNow(k) ==
    /\ program'[Val(res_stations[k].instruction)].start_exec_cycle # Some(cycle)
    /\ program'[Val(res_stations[k].instruction)].end_exec_cycle # Some(cycle)

\* C26, as stated: a station performs Write-Back in cycle C only if at the
\* end of cycle C-1 it was busy, executing, had cycles_left = 0 and had not
\* yet written; its instruction does not start or end execution in C; and
\* every execution that is done performs its one Write-Back in the next cycle.
C26_WritesExactlyOnce ==
    [][\A k \in StationIds :
          /\ WritesNow(k) => (ExecutionDone(k) /\ NoStartOrEndNow(k))
          /\ (ExecutionDone(k) /\ cycle' = cycle + 1) => WritesNow(k)]_vars


\* C27: for every station the Write-Back sweep processes, whatever the opcode,
\* the instruction held by that station is marked complete, the
\* completed-instruction counter goes up by exactly 1 for it, and the
\* station's wrote_result flag becomes true.
C27_HeldInstructionMarkedComplete ==
    [][cycle' = cycle + 1 =>
          /\ \A k \in StationIds :
                ReachedByWriteBack(k) =>
                    /\ program'[Val(res_stations[k].instruction)].completed
                    /\ res_stations'[k].wrote_result
          /\ completed_instructions' =
                completed_instructions +
                    Cardinality({k \in StationIds : ReachedByWriteBack(k)})]_vars


\* station k is visited by this cycle's Write-Back sweep with a BEQ whose
\* operands differ
NotTakenAt(k) ==
    /\ ReachedByWriteBack(k)
    /\ Held(k).opcode = "BEQ"
    /\ res_stations[k].vj # res_stations[k].vk

\* the Write-Back of station k counts a branch, leaves the misprediction
\* counter and the queue alone, moves current_pc behind the BEQ and clears
\* pending_control_flow
FallsThrough(k) ==
    LET b == BeforeWriteBackOf(k)
        a == WriteBackStation(b, k)
    IN  /\ a.branch_count = b.branch_count + 1
        /\ a.mispredictions = b.mispredictions
        /\ a.instructions = b.instructions
        /\ a.current_pc = Held(k).pc + 1
        /\ ~a.pending_control_flow

\* C28, as stated: at the Write-Back of a BEQ at pc p whose operands differ,
\* the branch counter increases by 1, the misprediction counter is unchanged,
\* the queue is neither cleared nor rebuilt, current_pc becomes p + 1 and
\* pending_control_flow becomes false.
C28_NotTakenFallsThrough ==
    [][\A k \in StationIds : NotTakenAt(k) => FallsThrough(k)]_vars

\* C28, amended: the same for a BEQ whose operands differ and whose target pc
\* is not negative; the counters at the end of the cycle are those of the sweep.
C28_NotTakenValidFallsThrough ==
    [][/\ \A k \in StationIds :
             (NotTakenAt(k) /\ ~InvalidTargetAt(k)) => FallsThrough(k)
       /\ (cycle' = cycle + 1 /\ ~CycleCapHit) =>
             /\ branch_count' = AfterWriteBack.branch_count
             /\ mispredictions' = AfterWriteBack.mispredictions]_vars

\* C28 witness: a BEQ whose operands differ wrote back in the last cycle, the
\* counters show one branch and no misprediction, current_pc is behind the
\* BEQ, and the instruction after it was issued from the kept queue
C28_Witness ==
    \E k \in StationIds :
        /\ res_stations[k].busy /\ res_stations[k].wrote_result
        /\ Held(k).opcode = "BEQ"
        /\ res_stations[k].vj # res_stations[k].vk
        /\ Held(k).write_cycle = Some(cycle - 1)
        /\ branch_count = 1 /\ mispredictions = 0
        /\ current_pc = Held(k).pc + 1
        /\ ~pending_control_flow
        /\ \E i \in DOMAIN program :
              /\ program[i].pc = Held(k).pc + 1
              /\ program[i].issue_cycle = Some(cycle - 1)


\* station o is not squashed in this cycle and takes its normal step: it ends
\* the cycle busy with the same instruction; it writes back if its execution
\* was done, counts down if it was executing, starts if it was ready
GoesOn(o) ==
    /\ res_stations'[o].busy
    /\ res_stations'[o].instruction = res_stations[o].instruction
    /\ ExecutionDone(o) => res_stations'[o].wrote_result
    /\ (res_stations[o].executing /\ res_stations[o].cycles_left > 0) =>
          res_stations'[o].cycles_left = res_stations[o].cycles_left - 1
    /\ ReadyToStart(o) => res_stations'[o].executing

\* C29: the Write-Back of a CALL, a RET or a taken BEQ, which refetches the
\* queue, leaves every other station exactly as it was (busy flag,
\* instruction, operands, tags, cycles_left, lifecycle flags), changes no
\* memory word, no register and no register status except the link register
\* R1 of a CALL, and the instructions already in stations go on: in the cycle
\* of the refetch they stay in their stations and write back, count down or
\* start as they would have without it.
C29_RefetchKeepsStations ==
    [][\A k \in StationIds :
          Redirects(k) =>
              LET b == BeforeWriteBackOf(k)
                  a == WriteBackStation(b, k)
              IN  /\ \A o \in StationIds \ {k} : a.res_stations[o] = b.res_stations[o]
                  /\ a.memory = b.memory
                  /\ \A R \in 0..7 :
                        \/ Held(k).opcode = "CALL" /\ R = 1
                        \/ /\ a.registers[R] = b.registers[R]
                           /\ a.register_status[R] = b.register_status[R]
                  /\ \A o \in StationIds \ {k} :
                        (res_stations[o].busy /\ ~res_stations[o].wrote_result) => GoesOn(o)]_vars


\* C29 witness: a CALL, a RET or a taken BEQ wrote back in the last cycle
\* while an instruction issued before it is still executing in its station
C29_Witness ==
    \E k, o \in StationIds :
        /\ o # k
        /\ res_stations[k].busy /\ res_stations[k].wrote_result
        /\ Held(k).write_cycle = Some(cycle - 1)
        /\ \/ Held(k).opcode \in {"CALL", "RET"}
           \/ Held(k).opcode = "BEQ" /\ res_stations[k].vj = res_stations[k].vk
        /\ res_stations[o].busy /\ ~res_stations[o].wrote_result
        /\ res_stations[o].executing
        /\ res_stations[o].cycles_left > 0
        /\ Val(Held(o).issue_cycle) < Val(Held(k).issue_cycle)
        /\ Held(o).start_exec_cycle # None
        /\ Val(Held(o).start_exec_cycle) < cycle - 1


\* station k is visited by this cycle's Write-Back sweep with a STORE
StoreAt(k) == ReachedByWriteBack(k) /\ Held(k).opcode = "STORE"

\* C30: the Write-Back of a STORE sets memory[Vj + A] to Vk and changes
\* nothing else architectural: no other memory word, no register, no
\* register status, no station's Vj, Vk, Qj or Qk, and not the queue,
\* current_pc or pending_control_flow; the memory at the end of the cycle is
\* the one the Write-Back sweep leaves.
C30_StoreWritesMemoryOnly ==
    [][/\ \A k \in StationIds :
             StoreAt(k) =>
                 LET b == BeforeWriteBackOf(k)
                     a == WriteBackStation(b, k)
                     addr == Val(res_stations[k].vj) + Val(res_stations[k].a)
                 IN  /\ addr \in DOMAIN a.memory
                     /\ a.memory[addr] = Val(res_stations[k].vk)
                     /\ \A x \in (DOMAIN a.memory \cup DOMAIN b.memory) \ {addr} :
                           /\ x \in DOMAIN a.memory /\ x \in DOMAIN b.memory
                           /\ a.memory[x] = b.memory[x]
                     /\ a.registers = b.registers
                     /\ a.register_status = b.register_status
                     /\ \A o \in StationIds :
                           /\ a.res_stations[o].vj = b.res_stations[o].vj
                           /\ a.res_stations[o].vk = b.res_stations[o].vk
                           /\ a.res_stations[o].qj = b.res_stations[o].qj
                           /\ a.res_stations[o].qk = b.res_stations[o].qk
                     /\ a.instructions = b.instructions
                     /\ a.current_pc = b.current_pc
                     /\ a.pending_control_flow = b.pending_control_flow
       /\ (cycle' = cycle + 1 /\ ~CycleCapHit) => memory' = AfterWriteBack.memory]_vars

\* C30 witness: a STORE of a value above 255 wrote back in the last cycle and
\* the memory word at its address holds the value
C30_Witness ==
    \E k \in StationIds :
        /\ res_stations[k].busy /\ res_stations[k].wrote_result
        /\ Held(k).opcode = "STORE"
        /\ Held(k).write_cycle = Some(cycle - 1)
        /\ Val(res_stations[k].vk) > 255
        /\ (Val(res_stations[k].vj) + Val(res_stations[k].a)) \in DOMAIN memory
        /\ memory[Val(res_stations[k].vj) + Val(res_stations[k].a)] = Val(res_stations[k].vk)


\* the simulator's fields between this cycle's Execute and Issue sweeps
BeforeIssue == ExecuteSweep(AfterWriteBack)

\* this cycle's call reaches its Issue sweep
ReachesIssue == cycle' = cycle + 1 /\ ~CycleCapHit /\ ~AfterWriteBack.returned

\* instruction i is issued in this cycle
IssuedNow(i) == program'[i].issue_cycle = Some(cycle)

\* a STORE was issued in the previous cycle
StoreIssuedLastCycle ==
    \E i \in DOMAIN program :
        program[i].opcode = "STORE" /\ program[i].issue_cycle = Some(cycle - 1)

\* C31: after Issue has issued an instruction, pending_control_flow is true
\* iff its opcode is BEQ, CALL or RET, and when nothing is issued Issue leaves
\* the flag alone; issuing a STORE changes no register-status entry; and in
\* the cycle after a STORE was issued the flag is still false, so the head of
\* the queue is issued if a station of its type is free.
C31_OnlyControlFlowBlocksIssue ==
    [][ReachesIssue =>
          /\ \A i \in DOMAIN program :
                IssuedNow(i) =>
                    /\ pending_control_flow' = (program[i].opcode \in {"BEQ", "CALL", "RET"})
                    /\ program[i].opcode = "STORE" =>
                          register_status' = BeforeIssue.register_status
          /\ (\A i \in DOMAIN program : ~IssuedNow(i)) =>
                pending_control_flow' = BeforeIssue.pending_control_flow
          /\ StoreIssuedLastCycle =>
                /\ ~pending_control_flow
                /\ (/\ BeforeIssue.instructions # <<>>
                    /\ FreeStation(BeforeIssue,
                          op_to_rs(program[Head(BeforeIssue.instructions)].opcode)) # 0)
                      => IssuedNow(Head(BeforeIssue.instructions))]_vars

\* C31 witness: the instruction behind a STORE was issued in the cycle after
\* the STORE, which has not written back yet
C31_Witness ==
    \E i \in DOMAIN program :
        /\ i > 1
        /\ program[i - 1].opcode = "STORE"
        /\ program[i - 1].issue_cycle = Some(cycle - 2)
        /\ program[i - 1].write_cycle = None
        /\ program[i].issue_cycle = Some(cycle - 1)
        /\ ~pending_control_flow


\* bit i of the two's-complement representation of x
BitOf(x, i) == (x \div (2 ^ i)) % 2

\* (a * b) mod 2^16 for a, b in 0..65535, by shift and add
RECURSIVE MulMod16(_, _)
MulMod16(a, b) ==
    IF b = 0 THEN 0
    ELSE (2 * MulMod16(a, b \div 2) + (b % 2) * a) % 65536

\* the value the claim gives for an arithmetic opcode
ExpectedArith(opcode, vj, vk) ==
    CASE opcode = "ADD" -> (vj + vk) % 65536
      [] opcode = "SUB" -> (vj - vk) % 65536
      [] opcode = "MUL" -> MulMod16(vj % 65536, vk % 65536)
      [] opcode = "NOR" ->
            LET bits == [i \in 0..15 |-> 1 - (IF BitOf(vj, i) = 1 \/ BitOf(vk, i) = 1 THEN 1 ELSE 0)]
                Sum[i \in 0..15] == bits[i] * (2 ^ i) + (IF i = 0 THEN 0 ELSE Sum[i - 1])
            IN  Sum[15]

\* operand values at and around the edges of the 16-bit range, with negative
\* values as a LOAD of a negative memory word brings them in
OperandSamples == {-32768, -42, -1, 0, 1, 42, 255, 256, 32767, 32768, 65534, 65535}

\* C32: for the operand values Vj, Vk a station holds, the result of ADD is
\* (Vj + Vk) mod 2^16, of SUB (Vj - Vk) mod 2^16, of MUL (Vj * Vk) mod 2^16
\* and of NOR the 16-bit complement of Vj | Vk; each result lies in 0..65535
\* and goes to the register named by the instruction's first operand. Checked
\* on the sample operands when a program is loaded and on every arithmetic
\* Write-Back of the runs.
C32_ArithmeticIs16Bit ==
    [][/\ program = <<>> =>
             \A op \in {"ADD", "SUB", "NOR", "MUL"} : \A x, y \in OperandSamples :
                 /\ ArithResult(op, x, y) = ExpectedArith(op, x, y)
                 /\ ArithResult(op, x, y) \in 0..65535
                 /\ (op = "MUL" /\ x \in -32768..32767) =>
                       ArithResult(op, x, y) = (x * y) % 65536
       /\ \A k \in StationIds :
             (ReachedByWriteBack(k) /\ Held(k).opcode \in {"ADD", "SUB", "NOR", "MUL"}) =>
                 LET b == BeforeWriteBackOf(k)
                     a == WriteBackStation(b, k)
                     R == RegIndex(Held(k).operands[1])
                     v == ExpectedArith(Held(k).opcode,
                                        Val(res_stations[k].vj), Val(res_stations[k].vk))
                 IN  /\ v \in 0..65535
                     /\ b.register_status[R] = Some(res_stations[k].name) =>
                           /\ a.registers[R] = v
                           /\ \A Q \in 0..7 \ {R} : a.registers[Q] = b.registers[Q]
                     /\ \A o \in StationIds :
                           b.res_stations[o].qj = Some(res_stations[k].name) =>
                               a.res_stations[o].vj = Some(v)]_vars

\* C32 witness: a MUL whose exact product leaves the 16-bit range wrote back
\* in the last cycle and its destination holds the product mod 2^16
C32_Witness ==
    \E k \in StationIds :
        /\ res_stations[k].busy /\ res_stations[k].wrote_result
        /\ Held(k).opcode = "MUL"
        /\ Held(k).write_cycle = Some(cycle - 1)
        /\ Val(res_stations[k].vj) = 65535
        /\ Val(res_stations[k].vk) = 65534
        /\ registers[RegIndex(Held(k).operands[1])] = 2


\* the station type the claim gives for an opcode
MappedType(opcode) ==
    CASE opcode \in {"ADD", "SUB"} -> "ADD_SUB"
      [] opcode \in {"CALL", "RET"} -> "CALL_RET"
      [] OTHER -> opcode

\* the stations of a type, as station indices; within a type the index order
\* is the order of the names <TYPE>1, <TYPE>2, ...
StationsOfType(type) == {k \in StationIds : res_stations[k].op_type = type}

\* C33: Issue looks only at the head of the queue and issues at most one
\* instruction per cycle. If a station of the head's mapped type is not busy,
\* the head is popped, stamped with the cycle and placed in the
\* lowest-indexed such station, and no other station changes. If every
\* station of that type is busy, nothing is issued: the queue, the stations
\* and the register status are those Execute left.
C33_IssueHeadFirstFit ==
    [][ReachesIssue =>
          LET b == BeforeIssue
              issued == {i \in DOMAIN program : IssuedNow(i)}
          IN  /\ Cardinality(issued) <= 1
              /\ \A i \in issued :
                    /\ b.instructions # <<>> /\ i = Head(b.instructions)
                    /\ instructions' = Tail(b.instructions)
                    /\ \E f \in StationsOfType(MappedType(program[i].opcode)) :
                          /\ ~b.res_stations[f].busy
                          /\ \A j \in StationsOfType(MappedType(program[i].opcode)) :
                                j < f => b.res_stations[j].busy
                          /\ res_stations'[f].busy
                          /\ res_stations'[f].instruction = Some(i)
                          /\ \A o \in StationIds \ {f} : res_stations'[o] = b.res_stations[o]
              /\ (/\ b.instructions # <<>>
                  /\ ~b.pending_control_flow
                  /\ \E f \in StationsOfType(MappedType(program[Head(b.instructions)].opcode)) :
                        ~b.res_stations[f].busy)
                    => issued # {}
              /\ issued = {} =>
                    /\ instructions' = b.instructions
                    /\ res_stations' = b.res_stations
                    /\ register_status' = b.register_status
                    /\ program' = b.program]_vars

\* C33 witness: an instruction was issued in the last cycle into the second
\* station of its type while the first one is busy, and the next instruction
\* waits at the head of the queue
C33_Witness ==
    \E k \in StationIds :
        /\ res_stations[k].busy
        /\ Held(k).issue_cycle = Some(cycle - 1)
        /\ k - 1 \in StationIds
        /\ res_stations[k - 1].op_type = res_stations[k].op_type
        /\ res_stations[k - 1].busy
        /\ Val(Held(k - 1).issue_cycle) < cycle - 1
        /\ instructions # <<>>


\* the tags held by station k
TagsOf(k) == {q \in {res_stations[k].qj, res_stations[k].qk} : q # None}

\* station p is a live producer for a tag held by station k: another station,
\* busy, not yet written, holding an instruction with a register result
LiveProducer(p, k) ==
    /\ p # k
    /\ res_stations[p].busy
    /\ ~res_stations[p].wrote_result
    /\ Held(p).opcode \in {"LOAD", "ADD", "SUB", "NOR", "MUL", "CALL"}

\* C34: in every reachable state, every tag Qj or Qk held by a busy station
\* names a station that is busy, has not yet performed Write-Back, is not the
\* holder itself and holds a LOAD, ADD, SUB, NOR, MUL or CALL.
C34_TagsNameLiveProducers ==
    \A k \in StationIds :
        res_stations[k].busy =>
            \A q \in TagsOf(k) :
                \E p \in StationIds :
                    /\ res_stations[p].name = Val(q)
                    /\ LiveProducer(p, k)

\* C34 witness: a busy station waits on a tag whose producer is executing
C34_Witness ==
    \E k, p \in StationIds :
        /\ res_stations[k].busy
        /\ res_stations[k].qj = Some(res_stations[p].name)
        /\ LiveProducer(p, k)
        /\ res_stations[p].executing
        /\ res_stations[p].cycles_left > 0


\* the program has no BEQ, CALL or RET
StraightLine ==
    \A i \in DOMAIN program : program[i].opcode \notin {"BEQ", "CALL", "RET"}

\* seen from just before the Write-Back of the LOAD in station k: station s
\* holds a STORE that comes earlier in program order, goes to the same
\* address and has not written its data yet
OlderStorePending(s, k) ==
    LET b == BeforeWriteBackOf(k)
    IN  /\ s # k
        /\ b.res_stations[s].busy
        /\ ~b.res_stations[s].wrote_result
        /\ Held(s).opcode = "STORE"
        /\ Held(s).pc < Held(k).pc
        /\ b.res_stations[s].vj # None
        /\ b.res_stations[s].vk # None
        /\ Val(b.res_stations[s].vj) + Val(b.res_stations[s].a)
              = Val(res_stations[k].vj) + Val(res_stations[k].a)

\* C35: in a straight-line program, a LOAD that follows a STORE to the same
\* address returns the value that STORE wrote: when the LOAD reads memory at
\* its Write-Back, the word it reads is the data of every older STORE to that
\* address that is still in its station.
C35_LoadSeesOlderStore ==
    [][StraightLine =>
          \A k \in StationIds :
              (ReachedByWriteBack(k) /\ Held(k).opcode = "LOAD") =>
                  \A s \in StationIds :
                      OlderStorePending(s, k) =>
                          MemGet(BeforeWriteBackOf(k).memory,
                                 Val(res_stations[k].vj) + Val(res_stations[k].a))
                              = Val(BeforeWriteBackOf(k).res_stations[s].vk)]_vars


\* the stations holding a BEQ, CALL or RET that has not yet written back
UnresolvedControl ==
    {k \in StationIds :
        /\ res_stations[k].busy
        /\ ~res_stations[k].wrote_result
        /\ Held(k).opcode \in {"BEQ", "CALL", "RET"}}

\* C36: in every reachable state at most one station holds a BEQ, CALL or RET
\* that has not yet performed Write-Back, and pending_control_flow is true
\* exactly when there is one.
C36_PendingIffControlInFlight ==
    /\ Cardinality(UnresolvedControl) <= 1
    /\ pending_control_flow = (UnresolvedControl # {})


\* C36 witness: one BEQ, CALL or RET is in flight with the flag set, the
\* instruction behind it waits in the queue, and a station of the type that
\* instruction needs is free
C36_Witness ==
    /\ Cardinality(UnresolvedControl) = 1
    /\ pending_control_flow
    /\ instructions # <<>>
    /\ \E f \in StationIds :
          /\ ~res_stations[f].busy
          /\ res_stations[f].op_type = op_to_rs(program[Head(instructions)].opcode)


\* the four station states of the claim
IsFree(rs) ==
    /\ ~rs.busy /\ ~rs.executing /\ ~rs.wrote_result
    /\ rs.instruction = None
    /\ rs.vj = None /\ rs.vk = None /\ rs.qj = None /\ rs.qk = None /\ rs.a = None
    /\ rs.cycles_left = 0

IsWaiting(rs) == rs.busy /\ ~rs.executing /\ ~rs.wrote_result

IsExecuting(rs) ==
    /\ rs.busy /\ rs.executing /\ ~rs.wrote_result
    /\ rs.qj = None /\ rs.qk = None
    /\ rs.cycles_left \in 0..rs.exec_cycles

IsWrote(rs) == rs.busy /\ rs.executing /\ rs.wrote_result /\ rs.cycles_left = 0

\* the number of the four states a station is in
StatesOf(rs) ==
    Cardinality({n \in 1..4 : \/ n = 1 /\ IsFree(rs)
                              \/ n = 2 /\ IsWaiting(rs)
                              \/ n = 3 /\ IsExecuting(rs)
                              \/ n = 4 /\ IsWrote(rs)})

\* C37: at the end of every cycle each station is in exactly one of the
\* states Free, Waiting, Executing and Wrote, and just_wrote is false on
\* every station.
C37_FourStationStates ==
    \A k \in StationIds :
        /\ StatesOf(res_stations[k]) = 1
        /\ ~res_stations[k].just_wrote

\* C37 witness: the four states are all present at the end of one cycle, the
\* Wrote station having written back in that cycle
C37_Witness ==
    \E f, w, e, d \in StationIds :
        /\ IsFree(res_stations[f])
        /\ IsWaiting(res_stations[w])
        /\ IsExecuting(res_stations[e]) /\ res_stations[e].cycles_left > 0
        /\ IsWrote(res_stations[d])
        /\ Held(d).write_cycle = Some(cycle - 1)

=============================================================================
